---------------------------- MODULE Spec2Model ----------------------------
(***************************************************************************)
(* A model of src/app.py: the documentation scraper with its file cache    *)
(* (EnhancedBHFDocumentationScraper) and the question answering engine     *)
(* (EnhancedBHFDocumentationQA).                                           *)
(*                                                                         *)
(* Text is a sequence of one-character strings, so that len(), slicing,    *)
(* str.count and the regular expressions of clean_text are computed        *)
(* character by character as Python computes them.                         *)
(*                                                                         *)
(* Five specifications share the variables:                                *)
(*   SpecClean  clean_text applied once and again to a drawn text;         *)
(*   SpecQA     load_content / answer_question over drawn content sets;    *)
(*   Spec       reruns of main: the cache file, the clock, the sessions;   *)
(*   SpecCrawl  one crawl of scrape_all_content over every fetch outcome;  *)
(*   SpecFound  one call of scrape_all_content on a cache file as found.   *)
(***************************************************************************)
EXTENDS Integers, Sequences, FiniteSets, TLC

VARIABLES
    clean_in,         \* SpecClean: the text handed to clean_text
    clean_out,        \* SpecClean: results of the successive applications
    content_database, \* SpecQA: qa_system.content_database, in iteration order
    qa_call,          \* SpecQA: the last operation of the QA system and what it did
    additional_paths, \* Spec: SCRAPING["additional_paths"], fixed for a run
    now,              \* Spec: the clock, time.time() in seconds
    cache_file,       \* Spec: the cache file: NoFile, or its mtime and text
    documentation_content, \* Spec: st.session_state['documentation_content']
    last_call         \* Spec: the scrape_all_content call of the last step, if any

vars == <<clean_in, clean_out, content_database, qa_call, additional_paths, now,
          cache_file, documentation_content, last_call>>

cleanVars == <<clean_in, clean_out>>
qaVars == <<content_database, qa_call>>
scraperVars == <<additional_paths, now, cache_file, documentation_content,
                 last_call>>

----------------------------------------------------------------------------
(* Generic helpers. *)

Range(s) == {s[i] : i \in DOMAIN s}

Min(S) == CHOOSE x \in S : \A y \in S : x <= y

\* All sequences over A of length at most n.
SeqsUpTo(A, n) == UNION {[1..k -> A] : k \in 0..n}

IsInjective(s) == \A i, j \in DOMAIN s : s[i] = s[j] => i = j

\* s[from:] in Python terms, with 1-based from.
From(s, from) == SubSeq(s, from, Len(s))

\* Python's str.isspace for the characters the model draws.
IsSpace(c) == c \in {" ", "\n", "\t", "\r"}

----------------------------------------------------------------------------
(* clean_text, src/app.py:176-190. *)

\* PROCESSING.get("cleaning_patterns", [...]) : the default list, by name.
\*   "link"  r'\[.*?\]\(\)'      "image"  r'!\[\]\(\)'      "ws"  r'\s+'
cleaning_patterns == <<"link", "image", "ws">>

\* Length of the match of pattern pat that starts at position p of s, or 0
\* when the pattern does not match there.  "link": '[' then the shortest run
\* of characters other than newline ('.' does not match "\n", '*?' is lazy)
\* that is followed by "]()".  "image": the literal "![]()".
MatchLenAt(pat, s, p) ==
    IF pat = "link"
    THEN IF s[p] # "["
         THEN 0
         ELSE LET ks == {k \in 0..(Len(s) - p - 3) :
                           /\ \A j \in (p + 1)..(p + k) : s[j] # "\n"
                           /\ s[p + k + 1] = "]"
                           /\ s[p + k + 2] = "("
                           /\ s[p + k + 3] = ")"}
              IN  IF ks = {} THEN 0 ELSE Min(ks) + 4
    ELSE IF /\ p + 4 <= Len(s)
            /\ SubSeq(s, p, p + 4) = <<"!", "[", "]", "(", ")">>
         THEN 5
         ELSE 0

\* re.sub(pat, '', s) from position from on: the leftmost match is deleted
\* and the scan goes on after it (matches do not overlap).
RECURSIVE ReSubDelete(_, _, _)
ReSubDelete(pat, s, from) ==
    LET starts == {p \in from..Len(s) : MatchLenAt(pat, s, p) > 0}
    IN  IF starts = {}
        THEN From(s, from)
        ELSE LET p == Min(starts)
             IN  SubSeq(s, from, p - 1)
                   \o ReSubDelete(pat, s, p + MatchLenAt(pat, s, p))

\* re.sub(r'\s+', ' ', s): every maximal run of whitespace becomes one space.
ReSubSpaces(s) ==
    LET idx == [i \in 1..Len(s) |-> i]
        First(i) == ~IsSpace(s[i]) \/ i = 1 \/ ~IsSpace(s[i - 1])
        kept == SelectSeq(idx, First)
    IN  [k \in 1..Len(kept) |-> IF IsSpace(s[kept[k]]) THEN " " ELSE s[kept[k]]]

\* str.strip(): leading and trailing whitespace removed.
Strip(s) ==
    LET lead  == Cardinality({i \in 1..Len(s) : \A j \in 1..i : IsSpace(s[j])})
        trail == Cardinality({i \in 1..Len(s) : \A j \in i..Len(s) : IsSpace(s[j])})
    IN  IF lead = Len(s) THEN <<>> ELSE SubSeq(s, lead + 1, Len(s) - trail)

\* for pattern in cleaning_patterns[:-1]: text = re.sub(pattern, '', text)
RECURSIVE ApplyDeletions(_, _)
ApplyDeletions(pats, s) ==
    IF pats = <<>> THEN s
    ELSE ApplyDeletions(Tail(pats), ReSubDelete(Head(pats), s, 1))

clean_text(s) ==
    Strip(ReSubSpaces(
        ApplyDeletions(SubSeq(cleaning_patterns, 1, Len(cleaning_patterns) - 1), s)))

----------------------------------------------------------------------------
(* Text helpers of the question answering engine. *)

UpperCase == <<"A", "B", "C", "D", "E", "F", "G", "H", "I", "J", "K", "L", "M",
               "N", "O", "P", "Q", "R", "S", "T", "U", "V", "W", "X", "Y", "Z">>
LowerCase == <<"a", "b", "c", "d", "e", "f", "g", "h", "i", "j", "k", "l", "m",
               "n", "o", "p", "q", "r", "s", "t", "u", "v", "w", "x", "y", "z">>

LowerMap == [c \in Range(UpperCase) |->
                LowerCase[CHOOSE i \in 1..Len(UpperCase) : UpperCase[i] = c]]

\* str.lower()
Lower(s) == [i \in 1..Len(s) |-> IF s[i] \in DOMAIN LowerMap THEN LowerMap[s[i]] ELSE s[i]]

\* str.split(): the maximal runs of non-whitespace characters, in order.
Split(s) ==
    LET idx == [i \in 1..Len(s) |-> i]
        Starts(i) == ~IsSpace(s[i]) /\ (i = 1 \/ IsSpace(s[i - 1]))
        starts == SelectSeq(idx, Starts)
        WordLen(i) == Cardinality({j \in i..Len(s) : \A k \in i..j : ~IsSpace(s[k])})
    IN  [k \in 1..Len(starts) |-> SubSeq(s, starts[k], starts[k] + WordLen(starts[k]) - 1)]

\* str.count(w) from position from on: occurrences that do not overlap,
\* found left to right (w is never empty here: words have min_word_length).
RECURSIVE CountFrom(_, _, _)
CountFrom(s, w, from) ==
    LET occ == {p \in from..(Len(s) - Len(w) + 1) : SubSeq(s, p, p + Len(w) - 1) = w}
    IN  IF occ = {} THEN 0 ELSE 1 + CountFrom(s, w, Min(occ) + Len(w))

Count(s, w) == CountFrom(s, w, 1)

\* c repeated n times.
Rep(c, n) == [i \in 1..n |-> c]

----------------------------------------------------------------------------
(* Configuration, src/app.py:21-34, and literals of the answers.  Every   *)
(* value is read with .get(key, default); the weights, the word length and *)
(* the result count are the defaults.  The three character limits          *)
(* (defaults 100, 10000 and 2000) are instantiated small, in the same      *)
(* order, so that texts just below, at and above each limit can be drawn.  *)

base_url ==
    <<"h", "t", "t", "p", "s", ":", "/", "/", "b", "h", "f", "d", "s", "c",
      ".", "g", "i", "t", "h", "u", "b", ".", "i", "o", "/", "d", "o", "c",
      "u", "m", "e", "n", "t", "a", "t", "i", "o", "n", "/">>

title_weight == 3
content_weight == 1
min_word_length == 3
max_results == 3

\* SCRAPING["min_content_length"], SCRAPING["max_content_length"] and
\* ANTHROPIC["max_source_length"].
min_content_length == 3
max_content_length == 20
max_source_length == 16

team_email == "bhfdsc_hds@hdruk.ac.uk"

TruncationMarker ==
    <<".", ".", ".", " ", "[", "c", "o", "n", "t", "e", "n", "t", " ",
      "t", "r", "u", "n", "c", "a", "t", "e", "d", "]">>

\* Answers are sequences of the parts their f-strings are made of.
PleaseProvideMessage ==
    <<"Please provide a question about the BHF Data Science Centre documentation.">>

NoRelevantInformationMessage ==
    <<"I couldn't find relevant information in the BHF Data Science Centre documentation to answer your question. ",
      "This system can help with questions about: ...",
      "For specific questions about research or data access, please contact the team directly at ",
      team_email, ".">>

ApiErrorMessage ==
    <<"I encountered an API error while processing your question. Please try again or contact ",
      team_email, " for assistance.">>

UnexpectedErrorMessage ==
    <<"An unexpected error occurred while processing your question. Please try again.">>

\* message.content[0].text of a successful completion.
CompletionText == <<"<text of the completion>">>

----------------------------------------------------------------------------
(* calculate_relevance_score, src/app.py:330-357.  A score is the fraction  *)
(* num/den: score / len(query_words), or 0/1 when no word is left.          *)

Zero == [num |-> 0, den |-> 1]

Greater(a, b) == a.num * b.den > b.num * a.den

QueryWords(query) ==
    LET LongEnough(w) == Len(w) >= min_word_length
    IN  SelectSeq(Split(Lower(query)), LongEnough)

RECURSIVE SumScore(_, _, _)
SumScore(words, title_lower, content_lower) ==
    IF words = <<>> THEN 0
    ELSE Count(title_lower, Head(words)) * title_weight
           + Count(content_lower, Head(words)) * content_weight
           + SumScore(Tail(words), title_lower, content_lower)

ScoreNotNormalised(query, content) ==
    LET query_words == QueryWords(query)
    IN  IF query_words = <<>>
        THEN Zero
        ELSE [num |-> SumScore(query_words, Lower(content.title), Lower(content.content)),
              den |-> 1]

calculate_relevance_score(query, content) ==
    LET query_words == QueryWords(query)
    IN  IF query_words = <<>>
        THEN Zero
        ELSE [num |-> SumScore(query_words, Lower(content.title), Lower(content.content)),
              den |-> Len(query_words)]

----------------------------------------------------------------------------
(* search_relevant_content, src/app.py:359-398.  The context is the         *)
(* sequence of its parts, one per source, each holding what its lines show. *)

\* A content set (a dict of records by URL) is the sequence of its items
\* [key, value] in iteration order.  scored_content: (score, url, content)
\* of the items with score > 0, in the iteration order of content_database.
ScoredContent(query, db) ==
    LET scored == [i \in 1..Len(db) |->
                     [score |-> calculate_relevance_score(query, db[i].value),
                      url |-> db[i].key, content |-> db[i].value]]
        Positive(x) == Greater(x.score, Zero)
    IN  SelectSeq(scored, Positive)

\* list.sort(key=lambda x: x[0], reverse=True): a stable sort, so elements of
\* equal score keep their order; each element is inserted after the elements
\* whose score is not smaller.
RECURSIVE SortByScoreReversedTies(_, _)
SortByScoreReversedTies(acc, rest) ==
    IF rest = <<>> THEN acc
    ELSE LET x == Head(rest)
             k == Cardinality({i \in 1..Len(acc) : Greater(acc[i].score, x.score)})
         IN  SortByScoreReversedTies(
                 SubSeq(acc, 1, k) \o <<x>> \o SubSeq(acc, k + 1, Len(acc)), Tail(rest))

RECURSIVE SortByScore(_, _)
SortByScore(acc, rest) ==
    IF rest = <<>> THEN acc
    ELSE LET x == Head(rest)
             k == Cardinality({i \in 1..Len(acc) : ~Greater(x.score, acc[i].score)})
         IN  SortByScore(
                 SubSeq(acc, 1, k) \o <<x>> \o SubSeq(acc, k + 1, Len(acc)), Tail(rest))

\* content_text[:max_source_length] + "... [content truncated]" when too long.
TruncateSourceAtLimit(content_text) ==
    IF Len(content_text) >= max_source_length
    THEN SubSeq(content_text, 1, max_source_length) \o TruncationMarker
    ELSE content_text

TruncateSource(content_text) ==
    IF Len(content_text) > max_source_length
    THEN SubSeq(content_text, 1, max_source_length) \o TruncationMarker
    ELSE content_text

search_relevant_content(query, db) ==
    IF db = <<>> THEN <<>>
    ELSE LET scored_content == SortByScore(<<>>, ScoredContent(query, db))
             top_content == SubSeq(scored_content, 1,
                                   IF Len(scored_content) < max_results
                                   THEN Len(scored_content) ELSE max_results)
         IN  [k \in 1..Len(top_content) |->
                 [source  |-> top_content[k].content.title,
                  url     |-> top_content[k].url,
                  score   |-> top_content[k].score,
                  content |-> TruncateSource(top_content[k].content.content)]]

----------------------------------------------------------------------------
(* generate_response, src/app.py:400-446, and answer_question, 448-468.     *)

\* What client.messages.create / message.content[0].text can do: return the
\* completion, raise a subclass of anthropic.APIError (quota, auth, network,
\* timeout), or raise another exception (an empty content list, a block
\* without text).
ApiErrors == {"RateLimitError", "AuthenticationError", "APIConnectionError",
              "APITimeoutError"}
OtherErrors == {"IndexError", "AttributeError"}
ApiOutcomes == {"ok"} \cup ApiErrors \cup OtherErrors

generate_response(question, context, outcome) ==
    IF outcome = "ok" THEN CompletionText
    ELSE IF outcome \in ApiErrors THEN ApiErrorMessage
    ELSE UnexpectedErrorMessage

\* The call and what it did: whether the search ran and its context, the
\* collaborator's outcome ("not called" when it was not invoked), the answer.
AnswerAlwaysGenerate(question, db, outcome) ==
    IF Strip(question) = <<>>
    THEN [op |-> "answer_question", question |-> question, searched |-> FALSE,
          context |-> <<>>, api |-> "not called", answer |-> PleaseProvideMessage]
    ELSE LET context == search_relevant_content(question, db)
         IN  [op |-> "answer_question", question |-> question, searched |-> TRUE,
              context |-> context, api |-> outcome,
              answer |-> generate_response(question, context, outcome)]

answer_question(question, db, outcome) ==
    IF Strip(question) = <<>>
    THEN [op |-> "answer_question", question |-> question, searched |-> FALSE,
          context |-> <<>>, api |-> "not called", answer |-> PleaseProvideMessage]
    ELSE LET context == search_relevant_content(question, db)
         IN  IF context = <<>>
             THEN [op |-> "answer_question", question |-> question, searched |-> TRUE,
                   context |-> context, api |-> "not called",
                   answer |-> NoRelevantInformationMessage]
             ELSE [op |-> "answer_question", question |-> question, searched |-> TRUE,
                   context |-> context, api |-> outcome,
                   answer |-> generate_response(question, context, outcome)]

----------------------------------------------------------------------------
(* The scraper: configuration and the cache file, src/app.py:130-174.       *)

cache_expiry == 3600
enable_content_cache == TRUE
content_selectors == <<"main", "article", "[role='main']">>
remove_elements == <<"script", "style">>

\* What an Optional holds: None, or a value.
None == [some |-> FALSE]
Some(value) == [some |-> TRUE, value |-> value]

\* The cache file: absent, or its modification time and its text.
NoFile == [exists |-> FALSE]
File(mtime, text) == [exists |-> TRUE, mtime |-> mtime, text |-> text]

\* What soup.find / soup.select_one return: None, or an element.
NoElement == [found |-> FALSE]
Element(chunks) == [found |-> TRUE, chunks |-> chunks]

\* The keys of a page record, in the order scrape_page writes them.
RecordKeys == <<"title", "content", "url", "scraped_at", "error">>

\* The text of a file is a JSON object (its members in order), a JSON
\* array (its items), text that is not JSON, or cannot be read at all.
\* json.dump(content, f): the members of the object in iteration order, each
\* a URL and the members of its record.
JsonDump(content) ==
    [json |-> "object",
     members |->
        [i \in 1..Len(content) |->
            [name |-> content[i].key,
             members |-> LET rec == content[i].value
                             Present(k) == k \in DOMAIN rec
                             keys == SelectSeq(RecordKeys, Present)
                         IN  [j \in 1..Len(keys) |-> <<keys[j], rec[keys[j]]>>]]]]

\* open(self.cache_file) or json.load(f) raises: the file cannot be read, or
\* its text is not JSON.
LoadRaises(text) == text.json \in {"unreadable", "not json"}

\* json.load(f) of text it can parse: the dict of the records read back
\* from the members of an object, the list of the items of an array.
JsonLoad(text) ==
    IF text.json = "array" THEN text.items
    ELSE [i \in 1..Len(text.members) |->
            [key |-> text.members[i].name,
             value |-> LET members == text.members[i].members
                       IN  [k \in {members[j][1] : j \in DOMAIN members} |->
                              members[CHOOSE j \in DOMAIN members : members[j][1] = k][2]]]]

\* load_cached_content, src/app.py:142-162, at time t with the file as it is.
LoadCachedExpiredLate(file, t) ==
    IF ~enable_content_cache THEN None
    ELSE IF file # NoFile /\ t - file.mtime <= cache_expiry
         THEN IF LoadRaises(file.text) THEN None ELSE Some(JsonLoad(file.text))
         ELSE None

load_cached_content(file, t) ==
    IF ~enable_content_cache THEN None
    ELSE IF file # NoFile /\ t - file.mtime < cache_expiry
         THEN IF LoadRaises(file.text) THEN None ELSE Some(JsonLoad(file.text))
         ELSE None

\* save_content_to_cache, src/app.py:164-174: the file after the call.
save_content_to_cache(content, file, t) ==
    IF ~enable_content_cache THEN file
    ELSE File(t, JsonDump(content))

----------------------------------------------------------------------------
(* Pages: extract_content_from_soup and scrape_page, src/app.py:192-262.    *)
(* A parsed document (soup) holds its title element, the element each       *)
(* content selector selects, its body and its whole text; an element holds  *)
(* the chunks of its text, each with the tag it stands in.                  *)

RECURSIVE GetText(_)
GetText(chunks) ==
    IF chunks = <<>> THEN <<>> ELSE Head(chunks).text \o GetText(Tail(chunks))

\* for element in soup(element_type): element.decompose()
Decompose(chunks) ==
    LET Stays(chunk) == chunk.tag \notin Range(remove_elements)
    IN  SelectSeq(chunks, Stays)

\* element.get_text() once the unwanted elements are removed.
TextOf(element) == GetText(Decompose(element.chunks))

extract_content_from_soup(soup) ==
    LET matched == {k \in 1..Len(content_selectors) : soup.selected[k] # NoElement}
        content_text == IF matched = {} THEN <<>>
                        ELSE TextOf(soup.selected[Min(matched)])
    IN  clean_text(IF content_text = <<>>
                   THEN IF soup.body # NoElement THEN TextOf(soup.body)
                        ELSE TextOf(soup.text)
                   ELSE content_text)

RequestExceptions == {"ConnectionError", "Timeout", "HTTPError"}
OtherExceptions == {"ParserError"}

\* str(e) of the exception raised.
ExceptionText(kind) ==
    CASE kind = "ConnectionError" -> <<"r", "e", "f", "u", "s", "e", "d">>
      [] kind = "Timeout" -> <<"t", "i", "m", "e", "d", " ", "o", "u", "t">>
      [] kind = "HTTPError" -> <<"4", "0", "4">>
      [] OTHER -> <<"p", "a", "r", "s", "e">>

TextUntitled ==
    <<"U", "n", "t", "i", "t", "l", "e", "d">>
TextRequestError ==
    <<"R", "e", "q", "u", "e", "s", "t", " ", "E", "r", "r", "o", "r">>
TextScrapingError ==
    <<"S", "c", "r", "a", "p", "i", "n", "g", " ", "E", "r", "r", "o", "r">>
TextFailedToFetch ==
    <<"F", "a", "i", "l", "e", "d", " ", "t", "o", " ", "f", "e", "t", "c",
      "h", " ", "c", "o", "n", "t", "e", "n", "t", " ", "f", "r", "o", "m",
      " ">>
TextUnexpectedError ==
    <<"U", "n", "e", "x", "p", "e", "c", "t", "e", "d", " ", "e", "r", "r",
      "o", "r", " ", "p", "r", "o", "c", "e", "s", "s", "i", "n", "g", " ">>

\* scrape_page(url) at time t when the fetch ends in outcome: an exception
\* of session.get / raise_for_status, an exception of the parsing, or a
\* parsed document.
scrape_page(url, outcome, t) ==
    IF outcome.kind \in RequestExceptions
    THEN [title |-> TextRequestError,
          content |-> TextFailedToFetch \o url \o <<":", " ">> \o ExceptionText(outcome.kind),
          url |-> url, scraped_at |-> t, error |-> TRUE]
    ELSE IF outcome.kind \in OtherExceptions
    THEN [title |-> TextScrapingError,
          content |-> TextUnexpectedError \o url \o <<":", " ">> \o ExceptionText(outcome.kind),
          url |-> url, scraped_at |-> t, error |-> TRUE]
    ELSE LET soup == outcome.soup
             title_text == IF soup.title # NoElement
                           THEN Strip(GetText(soup.title.chunks))
                           ELSE TextUntitled
             content_text == extract_content_from_soup(soup)
         IN  [title |-> title_text,
              content |-> IF Len(content_text) > max_content_length
                          THEN SubSeq(content_text, 1, max_content_length) \o TruncationMarker
                          ELSE content_text,
              url |-> url, scraped_at |-> t]

----------------------------------------------------------------------------
(* discover_pages and scrape_all_content, src/app.py:264-316.               *)

\* urljoin(self.base_url, path) for a relative path without "/" or "..":
\* base_url ends with "/", so the path is appended; an empty path gives
\* base_url itself.
urljoin(base, path) == base \o path

\* set(pages)
PageSet(paths) == {base_url} \cup {urljoin(base_url, paths[i]) : i \in 1..Len(paths)}

\* list(set(pages)): the pages once each, in an order the code does not fix.
discover_pages(paths) ==
    {pages \in [1..Cardinality(PageSet(paths)) -> PageSet(paths)] : IsInjective(pages)}

\* content.get('error', False)
IsError(content) == "error" \in DOMAIN content /\ content.error

\* The test of src/app.py:296-298.
Keep(content) ==
    /\ ~IsError(content)
    /\ content.content # <<>>
    /\ Len(content.content) > min_content_length

\* The loop of src/app.py:290-307 from page i on: all_content and the events
\* so far (each fetch with the record scrape_page returned, each sleep).
RECURSIVE CrawlDelayingAfterLast(_, _, _, _, _)
CrawlDelayingAfterLast(pages, outcomes, t, i, st) ==
    IF i > Len(pages) THEN st
    ELSE LET content == scrape_page(pages[i], outcomes[i], t)
             fetched == Append(st.events, [ev |-> "fetch", url |-> pages[i], record |-> content])
         IN  CrawlDelayingAfterLast(pages, outcomes, t, i + 1,
                   [all_content |-> IF Keep(content)
                                    THEN Append(st.all_content, [key |-> pages[i], value |-> content])
                                    ELSE st.all_content,
                    events |-> Append(fetched, [ev |-> "delay"])])

RECURSIVE CrawlStoppingAtError(_, _, _, _, _)
CrawlStoppingAtError(pages, outcomes, t, i, st) ==
    IF i > Len(pages) THEN st
    ELSE LET content == scrape_page(pages[i], outcomes[i], t)
             fetched == Append(st.events, [ev |-> "fetch", url |-> pages[i], record |-> content])
         IN  IF IsError(content)
             THEN [all_content |-> st.all_content, events |-> fetched]
             ELSE CrawlStoppingAtError(pages, outcomes, t, i + 1,
                    [all_content |-> IF Keep(content)
                                     THEN Append(st.all_content, [key |-> pages[i], value |-> content])
                                     ELSE st.all_content,
                     events |-> IF i < Len(pages)
                                THEN Append(fetched, [ev |-> "delay"]) ELSE fetched])

RECURSIVE Crawl(_, _, _, _, _)
Crawl(pages, outcomes, t, i, st) ==
    IF i > Len(pages) THEN st
    ELSE LET content == scrape_page(pages[i], outcomes[i], t)
             fetched == Append(st.events, [ev |-> "fetch", url |-> pages[i], record |-> content])
         IN  Crawl(pages, outcomes, t, i + 1,
                   [all_content |-> IF Keep(content)
                                    THEN Append(st.all_content, [key |-> pages[i], value |-> content])
                                    ELSE st.all_content,
                    events |-> IF i < Len(pages)
                               THEN Append(fetched, [ev |-> "delay"]) ELSE fetched])

\* scrape_all_content(use_cache) at time t, with the cache file as it is, the
\* order list(set(pages)) came out in and the outcome of each fetch: the
\* call as observed (when it was made, the file load_cached_content found
\* and what it returned, the events, the ContentSet returned) and the file
\* after it.
ScrapeIgnoringCache(use_cache, file, t, pages, outcomes) ==
    LET cached_content == IF use_cache THEN load_cached_content(file, t) ELSE None
        st == Crawl(pages, outcomes, t, 1, [all_content |-> <<>>, events |-> <<>>])
    IN  [op |-> "scrape_all_content", use_cache |-> use_cache, at |-> t, seen |-> file,
         cached_content |-> cached_content, crawled |-> TRUE,
         events |-> st.events, result |-> st.all_content,
         file |-> IF use_cache /\ st.all_content # <<>>
                  THEN save_content_to_cache(st.all_content, file, t) ELSE file]

scrape_all_content(use_cache, file, t, pages, outcomes) ==
    LET cached_content == IF use_cache THEN load_cached_content(file, t) ELSE None
    IN  IF use_cache /\ cached_content # None /\ cached_content.value # <<>>
        THEN [op |-> "scrape_all_content", use_cache |-> use_cache, at |-> t, seen |-> file,
              cached_content |-> cached_content, crawled |-> FALSE,
              events |-> <<>>, result |-> cached_content.value, file |-> file]
        ELSE LET st == Crawl(pages, outcomes, t, 1, [all_content |-> <<>>, events |-> <<>>])
             IN  [op |-> "scrape_all_content", use_cache |-> use_cache, at |-> t, seen |-> file,
                  cached_content |-> cached_content, crawled |-> TRUE,
                  events |-> st.events, result |-> st.all_content,
                  file |-> IF use_cache /\ st.all_content # <<>>
                           THEN save_content_to_cache(st.all_content, file, t) ELSE file]

----------------------------------------------------------------------------
(* SpecClean: clean_text applied to every text over CleanAlphabet of length *)
(* at most MaxCleanLen, and then to its own result.                         *)

\* The scraper's part of the state where the scraper takes no step.
ScraperIdle ==
    /\ additional_paths = <<>>
    /\ now = 0
    /\ cache_file = NoFile
    /\ documentation_content = <<>>
    /\ last_call = [op |-> "none"]

MaxCleanLen == 5

CleanAlphabet == {"[", "]", "(", ")", "!", " ", "\n", "a"}

InitClean ==
    /\ ScraperIdle
    /\ clean_in \in SeqsUpTo(CleanAlphabet, MaxCleanLen)
    /\ clean_out = <<>>
    /\ content_database = <<>>
    /\ qa_call = [op |-> "none"]

\* One more application of clean_text: to the input, then to the last result.
ApplyClean ==
    /\ Len(clean_out) < 2
    /\ clean_out' = Append(clean_out,
                           clean_text(IF clean_out = <<>> THEN clean_in
                                      ELSE clean_out[Len(clean_out)]))
    /\ UNCHANGED <<clean_in, qaVars, scraperVars>>

NextClean == ApplyClean

SpecClean == InitClean /\ [][NextClean]_vars

\* C10: clean_text is idempotent: applying it to its own result changes
\* nothing, for every input text.
C10_CleanIdempotent ==
    Len(clean_out) = 2 => clean_out[2] = clean_out[1]

----------------------------------------------------------------------------
(* SpecQA: the QA system is handed a content set (load_content) and asked   *)
(* questions (answer_question).  The content sets are the ordered           *)
(* selections of at most MaxRecords pages of a small site; its pages are    *)
(* records a crawl keeps: cleaned content longer than min_content_length,   *)
(* no error flag.                                                           *)

MaxRecords == 4

TextAbcXyz ==
    <<"A", "b", "c", " ", "X", "y", "z">>
TextTeam ==
    <<"T", "e", "a", "m">>
TextPortal ==
    <<"p", "o", "r", "t", "a", "l", " ">>
TextAbc3 ==
    <<"a", "b", "c", " ", "a", "b", "c", "a", "b", "c", " ">>
TextContact ==
    <<"c", "o", "n", "t", "a", "c", "t", " ">>
TextSpaceAbc ==
    <<" ", "a", "b", "c">>

QAPage(path, title, content) ==
    [key |-> base_url \o path,
     value |-> [title |-> title, content |-> content, url |-> base_url \o path,
                scraped_at |-> 0]]

\* For the question "abc": the first two pages tie at score 3 (one title
\* match; three content matches, two of them inside "abcabc"), the third
\* scores 0, the last two tie at score 1; the fourth is one character longer
\* than max_source_length, the fifth exactly max_source_length long.
QAPages ==
    <<QAPage(<<"e", "e">>, TextAbcXyz, TextPortal \o Rep("z", min_content_length)),
      QAPage(<<"d">>, TextTeam, TextAbc3 \o Rep("z", min_content_length)),
      QAPage(<<"c">>, TextTeam, TextContact \o Rep("z", min_content_length)),
      QAPage(<<"b">>, TextUntitled, Rep("z", max_source_length - 3) \o TextSpaceAbc),
      QAPage(<<>>, TextUntitled, Rep("z", max_source_length - 4) \o TextSpaceAbc)>>

ContentSets ==
    {[i \in 1..Len(ix) |-> QAPages[ix[i]]] :
        ix \in {t \in SeqsUpTo(1..Len(QAPages), MaxRecords) : IsInjective(t)}}

QAQuestions ==
    {<<"a", "b", "c">>,
     <<"A", "b", "c", " ", "x", "y", "z">>,
     <<"a", "b", "c", " ", " ", "a", "b", "c">>,
     <<"i", "s", " ", "i", "t">>,
     <<"q", "r", "s", "t">>,
     <<"z", "z", "z">>,
     <<" ", "\n">>,
     <<>>}

InitQA ==
    /\ ScraperIdle
    /\ content_database = <<>>
    /\ qa_call = [op |-> "none"]
    /\ clean_in = <<>>
    /\ clean_out = <<>>

\* qa_system = EnhancedBHFDocumentationQA(api_key), src/app.py:321-323 and
\* 600: every run of main starts with a new QA system.
NewQASystem ==
    /\ qa_call.op # "none"
    /\ content_database' = <<>>
    /\ qa_call' = [op |-> "none"]
    /\ UNCHANGED <<cleanVars, scraperVars>>

\* qa_system.load_content(content), src/app.py:325-328, as main calls it:
\* once, on the new QA system (src/app.py:635).
LoadContent ==
    /\ qa_call.op = "none"
    /\ \E content \in ContentSets :
          /\ content_database' = content
          /\ qa_call' = [op |-> "load_content"]
    /\ UNCHANGED <<cleanVars, scraperVars>>

\* qa_system.answer_question(question) as main calls it (src/app.py:678):
\* at most once in a run, after load_content; outcome is what the
\* collaborator does if it is invoked.
AnswerQuestion ==
    /\ qa_call.op = "load_content"
    /\ \E question \in QAQuestions, outcome \in ApiOutcomes :
          qa_call' = answer_question(question, content_database, outcome)
    /\ UNCHANGED <<content_database, cleanVars, scraperVars>>

NextQA == NewQASystem \/ LoadContent \/ AnswerQuestion

SpecQA == InitQA /\ [][NextQA]_vars

Answered == qa_call.op = "answer_question"

\* The scores of the records of the content set for the question asked.
ScoreOf(i) == calculate_relevance_score(qa_call.question, content_database[i].value)

PositiveRecords == {i \in 1..Len(content_database) : Greater(ScoreOf(i), Zero)}

\* C4 as stated: whenever no record has score > 0 the advisory message is
\* returned and the collaborator is not invoked; the collaborator is invoked
\* only when some record has score > 0.
C4_AdvisoryWheneverNoMatch ==
    Answered =>
        /\ PositiveRecords = {} =>
              /\ qa_call.answer = NoRelevantInformationMessage
              /\ qa_call.api = "not called"
        /\ qa_call.api # "not called" => PositiveRecords # {}

\* C4 amended: whenever no record has score > 0 the collaborator is not
\* invoked, and the answer is the advisory message for a question that is
\* not blank and the "please provide a question" message for a blank one;
\* the collaborator is invoked only when some record has score > 0.
C4_NoMatchBypassesCollaborator ==
    Answered =>
        /\ PositiveRecords = {} =>
              /\ qa_call.api = "not called"
              /\ qa_call.answer = IF Strip(qa_call.question) = <<>>
                                  THEN PleaseProvideMessage
                                  ELSE NoRelevantInformationMessage
        /\ qa_call.api # "not called" => PositiveRecords # {}

C4_Witness ==
    /\ Answered
    /\ content_database # <<>>
    /\ Strip(qa_call.question) # <<>>
    /\ PositiveRecords = {}
    /\ qa_call.answer = NoRelevantInformationMessage
    /\ qa_call.api = "not called"

\* C5: whatever failure the external answering call ends in, the answer
\* returned is an error message that includes the team contact address.
C5_FailureMessageHasContact ==
    (Answered /\ qa_call.api \in ApiErrors \cup OtherErrors) =>
        /\ qa_call.answer # CompletionText
        /\ team_email \in Range(qa_call.answer)

\* The scores of all the records, computed once.
Scores == [i \in 1..Len(content_database) |-> ScoreOf(i)] \o <<>>

\* Record i comes before record j in the ranking by the scores sc: a greater
\* score, or the same score and an earlier place in the iteration order.
RankedBefore(sc, i, j) ==
    \/ Greater(sc[i], sc[j])
    \/ (~Greater(sc[j], sc[i]) /\ i < j)

\* C8: the blocks of the context are the first min(max_results, number of
\* records with score > 0) records in descending order of score, ties in
\* iteration order: no block of score 0, at most max_results blocks, scores
\* not increasing, nothing omitted that scores more than a block.
C8_TopRankedBlocks ==
    (Answered /\ qa_call.searched) =>
        LET blocks == qa_call.context
            sc == Scores
            positive == {i \in 1..Len(sc) : Greater(sc[i], Zero)}
            RankOf(i) == Cardinality({j \in positive : RankedBefore(sc, j, i)}) + 1
            expected == IF Cardinality(positive) < max_results
                        THEN Cardinality(positive) ELSE max_results
        IN  /\ Len(blocks) = expected
            /\ \A k \in 1..Len(blocks) :
                  \E i \in positive :
                      /\ RankOf(i) = k
                      /\ blocks[k].url = content_database[i].key
                      /\ blocks[k].source = content_database[i].value.title
                      /\ blocks[k].score = sc[i]
            /\ \A k \in 1..Len(blocks) : Greater(blocks[k].score, Zero)
            /\ Len(blocks) <= max_results
            /\ \A k \in 1..(Len(blocks) - 1) : ~Greater(blocks[k + 1].score, blocks[k].score)
            /\ \A i \in 1..Len(content_database), k \in 1..Len(blocks) :
                  (\A m \in 1..Len(blocks) : blocks[m].url # content_database[i].key)
                      => ~Greater(sc[i], blocks[k].score)

\* More records match than fit, and two blocks tie and are in iteration
\* order although the later one has the shorter URL.
C8_Witness ==
    /\ Answered /\ qa_call.searched
    /\ Cardinality(PositiveRecords) > max_results
    /\ Len(qa_call.context) = max_results
    /\ \E k \in 1..(max_results - 1) :
          /\ qa_call.context[k].score = qa_call.context[k + 1].score
          /\ Len(qa_call.context[k + 1].url) < Len(qa_call.context[k].url)

\* The record of the content set a block was made of.
RecordOf(block) ==
    content_database[CHOOSE i \in 1..Len(content_database) :
                        content_database[i].key = block.url].value

\* C9: a block of a record whose content is longer than max_source_length
\* holds exactly its first max_source_length characters and then the
\* truncation marker; a block of any other record holds the content as is.
C9_TruncatedToLimit ==
    (Answered /\ qa_call.searched) =>
        \A k \in 1..Len(qa_call.context) :
            LET full == RecordOf(qa_call.context[k]).content
                shown == qa_call.context[k].content
            IN  IF Len(full) > max_source_length
                THEN /\ Len(shown) = max_source_length + Len(TruncationMarker)
                     /\ SubSeq(shown, 1, max_source_length) = SubSeq(full, 1, max_source_length)
                     /\ From(shown, max_source_length + 1) = TruncationMarker
                ELSE shown = full

\* One block is cut and marked, another holds a content of exactly
\* max_source_length characters unchanged.
C9_Witness ==
    /\ Answered /\ qa_call.searched
    /\ \E k \in 1..Len(qa_call.context) :
          /\ Len(RecordOf(qa_call.context[k]).content) = max_source_length + 1
          /\ Len(qa_call.context[k].content) = max_source_length + Len(TruncationMarker)
    /\ \E k \in 1..Len(qa_call.context) :
          /\ Len(RecordOf(qa_call.context[k]).content) = max_source_length
          /\ qa_call.context[k].content = RecordOf(qa_call.context[k]).content

----------------------------------------------------------------------------
(* Spec: reruns of main with the sidebar's buttons (src/app.py:516-635),    *)
(* new browser sessions and the passing of time.  The site has the pages of *)
(* additional_paths; each fetch times out or is answered with a document.   *)
(* SpecCrawl: one call of scrape_all_content on a site of up to three       *)
(* pages, each fetch ending in any exception or any of Docs.                *)

MaxTime == 3601

\* The values of SCRAPING["additional_paths"] tried in Spec: none (the
\* default) and one page; in SpecCrawl also the same page twice, a path
\* that resolves to base_url itself, and two pages.
PathConfigs == {<<>>, <<<<"a">>>>}
CrawlPathConfigs ==
    PathConfigs \cup {<<<<"a">>, <<"a">>>>, <<<<>>>>, <<<<"a">>, <<"b">>>>}

Chunk(tag, text) == <<[tag |-> tag, text |-> text]>>

Soup(title, selected, body) ==
    [kind |-> "document",
     soup |-> [title |-> title, selected |-> selected, body |-> body,
               text |-> IF body = NoElement THEN Element(<<>>) ELSE body]]

\* <title> T </title>, a <main> whose text cleans to min_content_length + 1
\* characters and holds a <script>.
DocKept ==
    Soup(Element(Chunk("title", <<" ", "T", "\n">>)),
         <<Element(Chunk("p", <<" ">> \o Rep("a", min_content_length - 1) \o <<"\n", " ", "b">>)
                      \o Chunk("script", <<"x", "x">>)),
           NoElement, NoElement>>,
         Element(Chunk("p", <<"n", "a", "v">>)))

\* No <title>, no selected element; a body of exactly min_content_length
\* characters.
DocAtMin == Soup(NoElement, <<NoElement, NoElement, NoElement>>,
                 Element(Chunk("p", Rep("c", min_content_length))))

\* A body one character short of min_content_length.
DocShort == Soup(Element(Chunk("title", <<"S">>)), <<NoElement, NoElement, NoElement>>,
                 Element(Chunk("p", Rep("d", min_content_length - 1))))

\* An <article> one character longer than max_content_length.
DocLong == Soup(Element(Chunk("title", <<"L">>)),
                <<NoElement, Element(Chunk("p", Rep("e", max_content_length + 1))), NoElement>>,
                Element(Chunk("p", <<"n", "a", "v">>)))

\* An empty <main>, so the body is used, and the body is white space.
DocEmpty == Soup(Element(Chunk("title", <<"E">>)), <<Element(<<>>), NoElement, NoElement>>,
                 Element(Chunk("p", <<" ", "\n">>)))

\* An empty <main> and an <article> of min_content_length + 1 characters;
\* the body holds a navigation bar and the article.
DocEmptyMain ==
    Soup(Element(Chunk("title", <<"M">>)),
         <<Element(<<>>), Element(Chunk("p", Rep("f", min_content_length + 1))), NoElement>>,
         Element(Chunk("p", <<"n", "a", "v", " ">>)
                    \o Chunk("p", Rep("f", min_content_length + 1))))

Docs == {DocKept, DocAtMin, DocShort, DocLong, DocEmpty, DocEmptyMain}

Outcomes == [kind : RequestExceptions \cup OtherExceptions] \cup Docs

\* The outcomes of a fetch in Spec.
Responses == {[kind |-> "Timeout"], DocKept, DocLong}

NoCall == [op |-> "none"]

Init ==
    /\ additional_paths \in PathConfigs
    /\ now = 0
    /\ cache_file = NoFile
    /\ documentation_content = <<>>
    /\ last_call = NoCall
    /\ content_database = <<>>
    /\ qa_call = [op |-> "none"]
    /\ clean_in = <<>>
    /\ clean_out = <<>>

\* One run of main in a session with an API key and no question asked: at
\* most one sidebar button is pressed.  "Clear Cache" removes the file
\* (src/app.py:550-559); the content is fetched on "Refresh" or when the
\* session holds none (src/app.py:603-608), and loaded into a new QA system
\* (src/app.py:600, 635).
RunMain ==
    \E button \in {"none", "refresh", "clear"} :
        LET refresh_btn == button = "refresh"
            file == IF button = "clear" THEN NoFile ELSE cache_file
        IN  /\ IF refresh_btn \/ documentation_content = <<>>
               THEN \E pages \in discover_pages(additional_paths) :
                    \E outcomes \in [1..Len(pages) -> Responses] :
                        LET call == scrape_all_content(~refresh_btn, file, now, pages, outcomes)
                        IN  /\ last_call' = call
                            /\ cache_file' = call.file
                            /\ documentation_content' = call.result
               ELSE /\ last_call' = NoCall
                    /\ cache_file' = file
                    /\ UNCHANGED documentation_content
            /\ content_database' = documentation_content'
            /\ qa_call' = [op |-> "load_content"]
            /\ UNCHANGED <<additional_paths, now, cleanVars>>

\* A new browser session: st.session_state starts empty (src/app.py:580-586).
NewSession ==
    /\ documentation_content # <<>>
    /\ documentation_content' = <<>>
    /\ last_call' = NoCall
    /\ content_database' = <<>>
    /\ qa_call' = [op |-> "none"]
    /\ UNCHANGED <<additional_paths, now, cache_file, cleanVars>>

\* Time passes: to just before, exactly at and just after the expiry of a
\* file written now.
Tick ==
    /\ \E d \in {cache_expiry - 1, cache_expiry, cache_expiry + 1} :
          /\ now + d <= MaxTime
          /\ now' = now + d
    /\ last_call' = NoCall
    /\ UNCHANGED <<additional_paths, cache_file, documentation_content, qaVars, cleanVars>>

Next == RunMain \/ NewSession \/ Tick

Spec == Init /\ [][Next]_vars

InitCrawl ==
    /\ additional_paths \in CrawlPathConfigs
    /\ now = 0
    /\ cache_file = NoFile
    /\ documentation_content = <<>>
    /\ last_call = NoCall
    /\ content_database = <<>>
    /\ qa_call = [op |-> "none"]
    /\ clean_in = <<>>
    /\ clean_out = <<>>

\* scraper.scrape_all_content(use_cache) on a new scraper.
ScrapeAllContent ==
    /\ last_call = NoCall
    /\ \E use_cache \in BOOLEAN :
       \E pages \in discover_pages(additional_paths) :
       \E outcomes \in [1..Len(pages) -> Outcomes] :
          LET call == scrape_all_content(use_cache, cache_file, now, pages, outcomes)
          IN  /\ last_call' = call
              /\ cache_file' = call.file
    /\ UNCHANGED <<additional_paths, now, documentation_content, qaVars, cleanVars>>

NextCrawl == ScrapeAllContent

SpecCrawl == InitCrawl /\ [][NextCrawl]_vars

\* SpecFound: one call of scrape_all_content that finds a cache file it did
\* not necessarily write: unreadable, not JSON, a JSON array, an empty
\* object, or a saved ContentSet; one second before its expiry or at it.
FoundTexts ==
    {[json |-> "unreadable"],
     [json |-> "not json"],
     [json |-> "array", items |-> <<1>>],
     JsonDump(<<>>),
     JsonDump(<<[key |-> base_url, value |-> scrape_page(base_url, DocKept, 0)]>>)}

InitFound ==
    /\ additional_paths \in PathConfigs
    /\ now \in {cache_expiry - 1, cache_expiry}
    /\ cache_file \in {File(0, text) : text \in FoundTexts}
    /\ documentation_content = <<>>
    /\ last_call = NoCall
    /\ content_database = <<>>
    /\ qa_call = [op |-> "none"]
    /\ clean_in = <<>>
    /\ clean_out = <<>>

SpecFound == InitFound /\ [][NextCrawl]_vars

Called == last_call # NoCall

Crawled == Called /\ last_call.crawled

\* The fetches of the call, in order, each with the record scrape_page
\* returned.
IsFetch(event) == event.ev = "fetch"
Fetches == SelectSeq(last_call.events, IsFetch)

\* The record is in the returned ContentSet under its URL.
KeptUnder(url, record) ==
    \E i \in 1..Len(last_call.result) :
        /\ last_call.result[i].key = url
        /\ last_call.result[i].value = record

\* C1: whenever scrape_all_content crawls (cache missing, expired, or an
\* explicit refresh), the ContentSet it returns is saved, so that
\* load_cached_content issued afterwards within the TTL returns a ContentSet
\* equal to it in every record field.
C1_CrawlResultIsCached ==
    (Crawled /\ now - last_call.at < cache_expiry) =>
        load_cached_content(cache_file, now) = Some(last_call.result)

\* C2: load_cached_content returns the persisted entry only while
\* now - mtime < cache_expiry: the entry at every time before
\* mtime + cache_expiry, None at mtime + cache_expiry and later, and None
\* when there is no file.
C2_FreshUntilExpiry ==
    (Called /\ last_call.use_cache) =>
        LET file == last_call.seen
        IN  IF file = NoFile THEN last_call.cached_content = None
            ELSE IF last_call.at < file.mtime + cache_expiry
                 THEN last_call.cached_content = Some(JsonLoad(file.text))
                 ELSE last_call.cached_content = None

\* The file is read exactly cache_expiry after it was written, and None is
\* returned.
C2_Witness ==
    /\ Called /\ last_call.use_cache
    /\ last_call.seen # NoFile
    /\ last_call.at = last_call.seen.mtime + cache_expiry
    /\ last_call.cached_content = None

\* C3: when scrape_all_content is called with caching in use and a file
\* exists whose age is within cache_expiry, no page is fetched and no delay
\* is made during the call, and the ContentSet returned is the persisted
\* one.
C3_CacheHitBypassesCrawler ==
    (Called /\ last_call.use_cache /\ last_call.seen # NoFile
        /\ last_call.at - last_call.seen.mtime < cache_expiry) =>
        /\ last_call.events = <<>>
        /\ last_call.result = JsonLoad(last_call.seen.text)
        /\ cache_file = last_call.seen

\* A call one second before the file expires returns its two records.
C3_Witness ==
    /\ Called /\ last_call.use_cache
    /\ last_call.seen # NoFile
    /\ last_call.at - last_call.seen.mtime = cache_expiry - 1
    /\ last_call.events = <<>>
    /\ Len(last_call.result) = 2

\* C6: in a crawl, whatever the fetches end in, every URL of the candidate
\* set is fetched exactly once, the call returns, and every successful
\* substantial page (no error, content longer than min_content_length) is in
\* the returned ContentSet under its URL.
C6_FailuresIsolatedPerUrl ==
    Crawled =>
        /\ last_call.op = "scrape_all_content"
        /\ \A url \in PageSet(additional_paths) :
              Cardinality({k \in 1..Len(Fetches) : Fetches[k].url = url}) = 1
        /\ \A k \in 1..Len(Fetches) : Fetches[k].url \in PageSet(additional_paths)
        /\ \A k \in 1..Len(Fetches) :
              (~IsError(Fetches[k].record)
                  /\ Len(Fetches[k].record.content) > min_content_length)
                  => KeptUnder(Fetches[k].url, Fetches[k].record)

\* Three pages: the first fetch fails in the request, the second in the
\* parsing, the third is kept.
C6_Witness ==
    /\ Crawled
    /\ Len(Fetches) = 3
    /\ Fetches[1].record.title = TextRequestError
    /\ Fetches[2].record.title = TextScrapingError
    /\ last_call.result = <<[key |-> Fetches[3].url, value |-> Fetches[3].record]>>

\* C7: a record of a crawl is discarded exactly when it has error = true or
\* its content is shorter than min_content_length: every non-error record
\* with len(content) >= min_content_length is kept under its URL, and no
\* other record is.
C7_DiscardedExactlyWhenErrorOrShort ==
    Crawled =>
        \A k \in 1..Len(Fetches) :
            KeptUnder(Fetches[k].url, Fetches[k].record)
                <=> (~IsError(Fetches[k].record)
                        /\ Len(Fetches[k].record.content) >= min_content_length)

\* The text is not that of a URL-to-record mapping: it cannot be read or
\* parsed, or it parses to something else than an object.
Malformed(text) == LoadRaises(text) \/ text.json # "object"

\* C11: when the persisted cache data is unreadable or malformed (not
\* parseable, or not a URL-to-record mapping), load_cached_content returns
\* None without raising, and scrape_all_content crawls instead of returning
\* the malformed data as a ContentSet.
C11_MalformedCacheFallsBackToCrawl ==
    (Called /\ last_call.use_cache /\ last_call.seen # NoFile
        /\ Malformed(last_call.seen.text)) =>
        /\ last_call.cached_content = None
        /\ last_call.crawled

\* The tokens of the question: the maximal runs of characters that are not
\* white space, as <<first, last>> positions, those of at least
\* min_word_length characters.
TokenSpans(q) ==
    {sp \in (1..Len(q)) \X (1..Len(q)) :
        /\ sp[1] <= sp[2]
        /\ \A k \in sp[1]..sp[2] : ~IsSpace(q[k])
        /\ sp[1] = 1 \/ IsSpace(q[sp[1] - 1])
        /\ sp[2] = Len(q) \/ IsSpace(q[sp[2] + 1])
        /\ sp[2] - sp[1] + 1 >= min_word_length}

\* The positions of s at which w occurs as a substring.
OccurrencesAt(s, w) ==
    {p \in 1..(Len(s) - Len(w) + 1) : SubSeq(s, p, p + Len(w) - 1) = w}

\* The number of substring occurrences of w in s.
Occurrences(s, w) == Cardinality(OccurrencesAt(s, w))

\* The largest number of occurrences no two of which overlap, among the
\* occurrences at the positions occ of a word of L characters in a text of
\* n characters: best[k + 1] is that number for the first k characters.
RECURSIVE BestDisjoint(_, _, _, _)
BestDisjoint(occ, L, n, best) ==
    IF Len(best) = n + 1 THEN best[n + 1]
    ELSE LET k == Len(best)
             without == best[k]
             with == IF k >= L /\ (k - L + 1) \in occ THEN best[k - L + 1] + 1 ELSE 0
         IN  BestDisjoint(occ, L, n, Append(best, IF with > without THEN with ELSE without))

\* The largest number of occurrences of w in s no two of which overlap.
DisjointOccurrences(s, w) == BestDisjoint(OccurrencesAt(s, w), Len(w), Len(s), <<0>>)

RECURSIVE SumOf(_)
SumOf(f) ==
    IF DOMAIN f = {} THEN 0
    ELSE LET x == CHOOSE x \in DOMAIN f : TRUE
         IN  f[x] + SumOf([y \in DOMAIN f \ {x} |-> f[y]])

\* The weighted matches of the tokens in record i, summed over the tokens,
\* with occurrences counted as substring occurrences, or as occurrences
\* that do not overlap.
WeightedOccurrences(i) ==
    LET q == Lower(qa_call.question)
        title == Lower(content_database[i].value.title)
        content == Lower(content_database[i].value.content)
    IN  SumOf([sp \in TokenSpans(q) |->
                 title_weight * Occurrences(title, SubSeq(q, sp[1], sp[2]))
                   + content_weight * Occurrences(content, SubSeq(q, sp[1], sp[2]))])

WeightedDisjointOccurrences(i) ==
    LET q == Lower(qa_call.question)
        title == Lower(content_database[i].value.title)
        content == Lower(content_database[i].value.content)
    IN  SumOf([sp \in TokenSpans(q) |->
                 title_weight * DisjointOccurrences(title, SubSeq(q, sp[1], sp[2]))
                   + content_weight * DisjointOccurrences(content, SubSeq(q, sp[1], sp[2]))])

TokenCount == Cardinality(TokenSpans(Lower(qa_call.question)))

\* C12 as stated: the score of a record is the sum, over the question's
\* white-space separated lower-cased tokens of at least min_word_length
\* characters, of title_weight x (substring occurrences in the lower-cased
\* title) + content_weight x (substring occurrences in the lower-cased
\* content), divided by the number of those tokens; 0 when there is no such
\* token; never negative.
C12_ScoreIsMeanOfWeightedOccurrences ==
    Answered =>
        LET n == TokenCount
        IN  \A i \in 1..Len(content_database) :
                LET score == ScoreOf(i)
                IN  /\ score.num >= 0 /\ score.den > 0
                    /\ IF n = 0 THEN score = Zero
                       ELSE score.num * n = WeightedOccurrences(i) * score.den

\* C12 amended: the same with the occurrences of a token counted as
\* str.count counts them, without overlap: the largest number of
\* occurrences no two of which share a character.
C12_ScoreIsMeanOfWeightedCounts ==
    Answered =>
        LET n == TokenCount
        IN  \A i \in 1..Len(content_database) :
                LET score == ScoreOf(i)
                IN  /\ score.num >= 0 /\ score.den > 0
                    /\ IF n = 0 THEN score = Zero
                       ELSE score.num * n = WeightedDisjointOccurrences(i) * score.den

\* A question of two tokens scored against a record they occur in, and a
\* question whose token overlaps itself in a record's content.
C12_Witness ==
    /\ Answered
    /\ \E i \in 1..Len(content_database) :
          \/ /\ TokenCount = 2
             /\ ScoreOf(i).den = 2
             /\ ScoreOf(i).num > 0
          \/ /\ TokenCount = 1
             /\ WeightedDisjointOccurrences(i) < WeightedOccurrences(i)
             /\ ScoreOf(i).num = WeightedDisjointOccurrences(i)

\* The documents fetch k can have been answered with: those scrape_page
\* makes the fetch's record of.
DocsOf(k) ==
    {d \in Docs : Fetches[k].record = scrape_page(Fetches[k].url, d, last_call.at)}

\* The last path segment of a URL: what stands after its last "/", a "/" at
\* its end aside.
LastSegment(url) ==
    LET n == IF url[Len(url)] = "/" THEN Len(url) - 1 ELSE Len(url)
        slashes == {p \in 1..n : url[p] = "/"}
        last == CHOOSE p \in slashes : \A r \in slashes : r <= p
    IN  SubSeq(url, last + 1, n)

\* C13: the title of a successfully fetched page is the text of the
\* document's title element when there is one, and otherwise a fallback
\* derived from the last path segment of the page's URL, so that two pages
\* without title element at different paths get different titles.
C13_TitleOrUrlFallback ==
    Crawled =>
        /\ \A k \in 1..Len(Fetches) : \A d \in DocsOf(k) :
              d.soup.title # NoElement
                 => Fetches[k].record.title = Strip(GetText(d.soup.title.chunks))
        /\ \A j, k \in 1..Len(Fetches) :
              (/\ \E d \in DocsOf(j) : d.soup.title = NoElement
               /\ \E d \in DocsOf(k) : d.soup.title = NoElement
               /\ LastSegment(Fetches[j].url) # LastSegment(Fetches[k].url))
                 => Fetches[j].record.title # Fetches[k].record.title

\* The text the content of a page is made of when the first selected region
\* with text is used: that region's text; the body's when no selected
\* region has text; the document's when there is no body.
FirstNonEmptyRegion(soup) ==
    LET nonempty == {k \in 1..Len(content_selectors) :
                        /\ soup.selected[k] # NoElement
                        /\ TextOf(soup.selected[k]) # <<>>}
    IN  IF nonempty # {} THEN TextOf(soup.selected[Min(nonempty)])
        ELSE IF soup.body # NoElement THEN TextOf(soup.body)
        ELSE TextOf(soup.text)

\* The content of the record of a page whose extracted text is text.
ContentOf(text) ==
    IF Len(text) > max_content_length
    THEN SubSeq(text, 1, max_content_length) \o TruncationMarker
    ELSE text

\* C14: extract_content_from_soup tries the content selectors in order and
\* uses the first match whose text is not empty: with a higher-priority
\* region present but empty and a lower-priority one with text, the latter's
\* text is the extracted content; the body is used only when no selector
\* has a match with text, the whole document only when there is no body.
C14_FirstNonEmptyRegionIsUsed ==
    Crawled =>
        \A k \in 1..Len(Fetches) : \A d \in DocsOf(k) :
            Fetches[k].record.content = ContentOf(clean_text(FirstNonEmptyRegion(d.soup)))

\* C15: in a crawl of N candidate URLs the delay is taken between every two
\* consecutive fetches and nowhere else: the events of the call are fetch,
\* delay, fetch, ..., fetch, with exactly N - 1 delays, also after a fetch
\* that failed or whose record was discarded, and none after the last
\* fetch.
C15_DelayBetweenConsecutiveFetches ==
    Crawled =>
        LET N == Cardinality(PageSet(additional_paths))
            events == last_call.events
        IN  /\ Len(Fetches) = N
            /\ Cardinality({k \in 1..Len(events) : events[k].ev = "delay"}) = N - 1
            /\ Len(events) = 2 * N - 1
            /\ \A k \in 1..Len(events) :
                  events[k].ev = IF k % 2 = 1 THEN "fetch" ELSE "delay"

\* Three pages: the first fetch fails, the record of the second is
\* discarded, and a delay follows each of the two and not the third.
C15_Witness ==
    /\ Crawled
    /\ Len(last_call.events) = 5
    /\ IsError(last_call.events[1].record)
    /\ last_call.events[2].ev = "delay"
    /\ ~IsError(last_call.events[3].record)
    /\ ~KeptUnder(last_call.events[3].url, last_call.events[3].record)
    /\ last_call.events[4].ev = "delay"
    /\ last_call.events[5].ev = "fetch"

=============================================================================
